---- MODULE Spec2Model ----
(***************************************************************************)
(* Model of the Jira export normalisation pipeline, src/main_jira.py.      *)
(*                                                                         *)
(* Strings (cell texts, column names) are sequences of one-character       *)
(* strings so that lower-casing, glyph removal and the two regular         *)
(* expressions are computed, not assumed.  A DataFrame is a record         *)
(*   [columns : sequence of names, dtypes : sequence of "object"/"float64",*)
(*    data : sequence of rows, each row a sequence of cells].              *)
(***************************************************************************)
EXTENDS Integers, Sequences, FiniteSets, TLC

VARIABLES
    pc,               \* position of main(): "start", "rename", "discover", "loop", "done", "aborted"
    fs,               \* the directory tree: path -> file content, or NoFile
    avg_files,        \* the AVG*.xlsx paths in the order rglob yields them (rename_excel_files)
    avg_idx,          \* number of them the for loop of rename_excel_files has consumed
    excel_filepaths,  \* result of get_excel_filepaths, in discovery order
    idx,              \* number of discovered files main's for loop has consumed
    transformed_dfs,  \* the list main's for loop appends to
    log_exists,       \* OUTPUT_LOGS_PATH exists on disk
    log_lines,        \* records written to OUTPUT_LOGS_PATH
    csv,              \* content of OUTPUT_CSV_PATH, or NoFile
    failed_at,        \* path whose processing raised, or NoPath
    df_in,            \* the frame pd.read_excel returned for the current file
    df,               \* main's df: the current file's frame after the steps taken so far
    stage             \* position in the loop body: "idle", "read", "preprocessed",
                      \* "converted", "split", "raised"

vars == <<pc, fs, avg_files, avg_idx, excel_filepaths, idx, transformed_dfs,
          log_exists, log_lines, csv, failed_at, df_in, df, stage>>

-----------------------------------------------------------------------------
(* Characters and strings *)

UpperChars == <<"A","B","C","D","E","F","G","H","I","J","K","L","M",
                "N","O","P","Q","R","S","T","U","V","W","X","Y","Z">>
LowerChars == <<"a","b","c","d","e","f","g","h","i","j","k","l","m",
                "n","o","p","q","r","s","t","u","v","w","x","y","z">>
DigitChars == <<"0","1","2","3","4","5","6","7","8","9">>

Range(s) == {s[i] : i \in DOMAIN s}

IsDigit(c) == c \in Range(DigitChars)
IsSpace(c) == c \in {" ", "\t"}
IsWord(c)  == c \in Range(UpperChars) \cup Range(LowerChars) \cup Range(DigitChars) \cup {"_"}

\* str.lower() on one character
LowerChar(c) ==
    IF c \in Range(UpperChars)
    THEN LowerChars[CHOOSE i \in DOMAIN UpperChars : UpperChars[i] = c]
    ELSE c

\* str.lower()
StrLower(s) == [i \in DOMAIN s |-> LowerChar(s[i])]

\* the glyph preprocess_columns strips from header texts
Glyph == "#GLYPH"

\* str.replace(Glyph, ""): drop every occurrence of the glyph
RECURSIVE StrReplaceGlyph(_)
StrReplaceGlyph(s) ==
    IF s = <<>> THEN <<>>
    ELSE IF Head(s) = Glyph THEN StrReplaceGlyph(Tail(s))
    ELSE <<Head(s)>> \o StrReplaceGlyph(Tail(s))

\* `sub in s` for strings
StrContains(s, sub) ==
    \E i \in 1..(Len(s) - Len(sub) + 1) : SubSeq(s, i, i + Len(sub) - 1) = sub

DigitVal(c) == (CHOOSE i \in DOMAIN DigitChars : DigitChars[i] = c) - 1

\* pd.to_numeric on a string of decimal digits
RECURSIVE ToNumeric(_)
ToNumeric(s) ==
    IF s = <<>> THEN 0
    ELSE ToNumeric(SubSeq(s, 1, Len(s) - 1)) * 10 + DigitVal(s[Len(s)])

-----------------------------------------------------------------------------
(* Cells *)

NaN    == [k |-> "nan", s |-> <<>>, n |-> 0]
Str(t) == [k |-> "str", s |-> t,    n |-> 0]
Num(v) == [k |-> "num", s |-> <<>>, n |-> v]

IsNaN(c) == c.k = "nan"

-----------------------------------------------------------------------------
(* Column names *)

DatePeriod == <<"D","a","t","e","/","P","e","r","i","o","d">>
LeadTime == <<"L","e","a","d"," ","T","i","m","e">>
CycleTime == <<"C","y","c","l","e"," ","T","i","m","e">>
BlockedTime == <<"B","l","o","c","k","e","d"," ","T","i","m","e">>
TimeToMarket == <<"T","i","m","e"," ","t","o"," ","M","a","r","k","e","t">>
AnalysisTime == <<"A","n","a","l","y","s","i","s"," ","T","i","m","e">>
PeriodStart == <<"P","e","r","i","o","d"," ","S","t","a","r","t">>
PeriodEnd == <<"P","e","r","i","o","d"," ","E","n","d">>
WeekNumber == <<"W","e","e","k"," ","N","u","m","b","e","r">>
DepartmentName == <<"D","e","p","a","r","t","m","e","n","t"," ","N","a","m","e">>

COLUMNS_TEMPLATE == <<DatePeriod, LeadTime, CycleTime, BlockedTime, TimeToMarket, AnalysisTime>>
COLUMNS_TEMPLATE_LOWER == [i \in DOMAIN COLUMNS_TEMPLATE |-> StrLower(COLUMNS_TEMPLATE[i])]

-----------------------------------------------------------------------------
(* DataFrames *)

Raised(e) == [columns |-> <<>>, dtypes |-> <<>>, data |-> <<>>, raised |-> e]
IsRaised(x) == "raised" \in DOMAIN x

NRows(d) == Len(d.data)

\* positions of the columns labelled name
ColPositions(d, name) == {j \in DOMAIN d.columns : d.columns[j] = name}
ColIndex(d, name) == CHOOSE j \in DOMAIN d.columns : d.columns[j] = name

\* df[name] as the sequence of its cells
Column(d, name) == [i \in DOMAIN d.data |-> d.data[i][ColIndex(d, name)]]

\* the subsequence of s at the positions satisfying keep, order preserved
RECURSIVE SelectPos(_, _, _)
SelectPos(s, keep, j) ==
    IF j > Len(s) THEN <<>>
    ELSE (IF keep[j] THEN <<s[j]>> ELSE <<>>) \o SelectPos(s, keep, j + 1)

-----------------------------------------------------------------------------
(* convert_time_cols *)

At(s, i) == IF i \in DOMAIN s THEN s[i] ELSE ""

\* first position at or after p that holds no digit
RECURSIVE DigitsEnd(_, _)
DigitsEnd(s, p) == IF IsDigit(At(s, p)) THEN DigitsEnd(s, p + 1) ELSE p

\* first position at or after p that holds no whitespace
RECURSIVE SpacesEnd(_, _)
SpacesEnd(s, p) == IF IsSpace(At(s, p)) THEN SpacesEnd(s, p + 1) ELSE p

\* one optional group (?:(\d+)u\s*)? tried at p: the captured digits (or NaN)
\* and the position the match continues from
UnitGroup(s, p, u) ==
    LET e == DigitsEnd(s, p) IN
    IF e > p /\ At(s, e) = u
    THEN [val |-> Str(SubSeq(s, p, e - 1)), next |-> SpacesEnd(s, e + 1)]
    ELSE [val |-> NaN, next |-> p]

\* Series.str.extract(regex_pattern) on one cell.  Every group is optional,
\* so re.search always matches at the first character (possibly the empty
\* match) and never looks further right.
extract_dhm(cell) ==
    IF cell.k # "str" THEN [Days |-> NaN, Hours |-> NaN, Minutes |-> NaN]
    ELSE LET d == UnitGroup(cell.s, 1, "d")
             h == UnitGroup(cell.s, d.next, "h")
             m == UnitGroup(cell.s, h.next, "m")
         IN  [Days |-> d.val, Hours |-> h.val, Minutes |-> m.val]

\* df_dhm.apply(pd.to_numeric) on one cell
to_numeric(c) == IF c.k = "str" THEN Num(ToNumeric(c.s)) ELSE c

fillna0(c) == IF IsNaN(c) THEN Num(0) ELSE c

\* mutant of process_nans: no row is filled
process_nans_keep(row) == row

process_nans(row) ==
    IF ~IsNaN(row.Days) \/ ~IsNaN(row.Hours) \/ ~IsNaN(row.Minutes)
    THEN [Days |-> fillna0(row.Days), Hours |-> fillna0(row.Hours), Minutes |-> fillna0(row.Minutes)]
    ELSE row

\* mutant of CeilDiv60: the minutes are floored
CeilDiv60_floor(m) == m \div 60

\* np.ceil(minutes / 60)
CeilDiv60(m) == (m + 59) \div 60

\* (Days * 24) + Hours + np.ceil(Minutes / 60); NaN propagates
total_hours(row) ==
    IF IsNaN(row.Days) \/ IsNaN(row.Hours) \/ IsNaN(row.Minutes) THEN NaN
    ELSE Num(row.Days.n * 24 + row.Hours.n + CeilDiv60(row.Minutes.n))

\* the parsed, numeric, nan-processed (Days, Hours, Minutes) of one cell
dhm_row(cell) ==
    LET e == extract_dhm(cell)
    IN  process_nans([Days |-> to_numeric(e.Days), Hours |-> to_numeric(e.Hours),
                      Minutes |-> to_numeric(e.Minutes)])

\* body of the for loop of convert_time_cols for one column
convert_one_col(d, col) ==
    LET j == ColIndex(d, col) IN
    IF d.dtypes[j] # "object" THEN d
    ELSE [d EXCEPT !.dtypes[j] = "float64",
                   !.data = [i \in DOMAIN d.data |->
                                [d.data[i] EXCEPT ![j] = total_hours(dhm_row(d.data[i][j]))]]]

RECURSIVE convert_time_cols(_, _)
convert_time_cols(d, columns_to_process) ==
    IF columns_to_process = <<>> THEN d
    ELSE convert_time_cols(convert_one_col(d, Head(columns_to_process)), Tail(columns_to_process))

\* main: [col for col in COLUMNS_TEMPLATE if "time" in col.lower()]
time_columns ==
    SelectPos(COLUMNS_TEMPLATE,
              [j \in DOMAIN COLUMNS_TEMPLATE |-> StrContains(StrLower(COLUMNS_TEMPLATE[j]), <<"t","i","m","e">>)],
              1)

-----------------------------------------------------------------------------
(* preprocess_columns *)

\* mutant of mask: the labels are not lower-cased before the comparison
mask_cased(columns) == [j \in DOMAIN columns |-> columns[j] \in Range(COLUMNS_TEMPLATE_LOWER)]

\* df.columns.str.lower().isin(COLUMNS_TEMPLATE_LOWER)
mask(columns) == [j \in DOMAIN columns |-> StrLower(columns[j]) \in Range(COLUMNS_TEMPLATE_LOWER)]

\* df.loc[:, mask]
loc_mask(d, m) ==
    [columns |-> SelectPos(d.columns, m, 1),
     dtypes  |-> SelectPos(d.dtypes, m, 1),
     data    |-> [i \in DOMAIN d.data |-> SelectPos(d.data[i], m, 1)]]

\* the template columns the first for loop of preprocess_columns logs, in
\* template order
missing_columns(columns) ==
    SelectPos(COLUMNS_TEMPLATE,
              [j \in DOMAIN COLUMNS_TEMPLATE |->
                  StrLower(COLUMNS_TEMPLATE[j]) \notin {StrLower(columns[c]) : c \in DOMAIN columns}],
              1)

\* one logging.info record of preprocess_columns: the column and the file name
LogLine(col, name) == [column |-> col, file |-> name]

\* col_rename_mapper applied to one label: labels already in the template are
\* skipped, the others take the first template entry equal to them in lower case
col_rename_mapper(c1) ==
    IF c1 \in Range(COLUMNS_TEMPLATE) THEN c1
    ELSE IF \E j \in DOMAIN COLUMNS_TEMPLATE : StrLower(c1) = StrLower(COLUMNS_TEMPLATE[j])
    THEN COLUMNS_TEMPLATE[CHOOSE j \in DOMAIN COLUMNS_TEMPLATE :
                             /\ StrLower(c1) = StrLower(COLUMNS_TEMPLATE[j])
                             /\ \A l \in 1..(j - 1) : StrLower(c1) # StrLower(COLUMNS_TEMPLATE[l])]
    ELSE c1

\* df.rename(columns=col_rename_mapper)
rename(d) == [d EXCEPT !.columns = [j \in DOMAIN d.columns |-> col_rename_mapper(d.columns[j])]]

HasDuplicates(columns) == \E i, j \in DOMAIN columns : i # j /\ columns[i] = columns[j]

\* df.reindex(columns=target): labels equal to the target are returned as they
\* are, an axis with duplicate labels cannot be reindexed (ValueError), and a
\* target label the frame lacks becomes a float64 column of NaN
reindex(d, target) ==
    IF d.columns = target THEN d
    ELSE IF HasDuplicates(d.columns) THEN Raised("ValueError")
    ELSE [columns |-> target,
          dtypes  |-> [j \in DOMAIN target |->
                         IF ColPositions(d, target[j]) # {} THEN d.dtypes[ColIndex(d, target[j])]
                         ELSE "float64"],
          data    |-> [i \in DOMAIN d.data |->
                         [j \in DOMAIN target |->
                            IF ColPositions(d, target[j]) # {} THEN d.data[i][ColIndex(d, target[j])]
                            ELSE NaN]]]

\* preprocess_columns(df, excel_filepath): the returned frame (or the raised
\* exception) and the records it logged on the way
preprocess_columns(d, name) ==
    LET stripped == [d EXCEPT !.columns = [j \in DOMAIN d.columns |-> StrReplaceGlyph(d.columns[j])]]
        kept     == loc_mask(stripped, mask(stripped.columns))
        missing  == missing_columns(kept.columns)
    IN  [df   |-> reindex(rename(kept), COLUMNS_TEMPLATE),
         logs |-> [j \in DOMAIN missing |-> LogLine(missing[j], name)]]

-----------------------------------------------------------------------------
(* split_date_col *)

\* \d{1,2}/\w{3}/\d{2} tried at p: the position after the match, 0 if none
DateEnd(s, p) ==
    LET q == IF IsDigit(At(s, p)) /\ IsDigit(At(s, p + 1)) /\ At(s, p + 2) = "/" THEN p + 2
             ELSE IF IsDigit(At(s, p)) /\ At(s, p + 1) = "/" THEN p + 1
             ELSE 0
    IN  IF /\ q # 0
           /\ IsWord(At(s, q + 1)) /\ IsWord(At(s, q + 2)) /\ IsWord(At(s, q + 3))
           /\ At(s, q + 4) = "/"
           /\ IsDigit(At(s, q + 5)) /\ IsDigit(At(s, q + 6))
        THEN q + 7
        ELSE 0

\* \s+ tried at p: the position after the whitespace run, 0 if none
SpacesPlus(s, p) == IF p # 0 /\ IsSpace(At(s, p)) THEN SpacesEnd(s, p) ELSE 0

\* a literal character tried at p
Lit(s, p, chars) == IF p # 0 /\ At(s, p) \in chars THEN p + 1 ELSE 0

\* \d+ tried at p
DigitsPlus(s, p) == IF p # 0 /\ IsDigit(At(s, p)) THEN DigitsEnd(s, p) ELSE 0

\* regex_pattern of split_date_col tried at p: the group boundaries of the
\* match (end # 0) or end = 0
DateMatchAt(s, p) ==
    LET e1 == DateEnd(s, p)
        b2 == SpacesPlus(s, Lit(s, SpacesPlus(s, e1), {"-"}))
        e2 == IF b2 = 0 THEN 0 ELSE DateEnd(s, b2)
        b3 == Lit(s, SpacesPlus(s, Lit(s, Lit(s, Lit(s, Lit(s, Lit(s, SpacesPlus(s, e2),
                  {"("}), {"W","w"}), {"E","e"}), {"E","e"}), {"K","k"})), {"#"})
        e3 == DigitsPlus(s, b3)
    IN  [b1 |-> p, e1 |-> e1, b2 |-> b2, e2 |-> e2, b3 |-> b3, e3 |-> e3,
         end |-> Lit(s, e3, {")"})]

\* Series.str.extract(regex_pattern) on one cell: re.search takes the
\* leftmost position where the pattern matches
extract_period(cell) ==
    LET starts == IF cell.k = "str" THEN {p \in DOMAIN cell.s : DateMatchAt(cell.s, p).end # 0} ELSE {}
    IN  IF starts = {} THEN <<NaN, NaN, NaN>>
        ELSE LET p == CHOOSE x \in starts : \A y \in starts : x <= y
                 m == DateMatchAt(cell.s, p)
             IN  <<Str(SubSeq(cell.s, m.b1, m.e1 - 1)),
                   Str(SubSeq(cell.s, m.b2, m.e2 - 1)),
                   Str(SubSeq(cell.s, m.b3, m.e3 - 1))>>

\* df.drop(name, axis=1)
drop(d, name) == loc_mask(d, [j \in DOMAIN d.columns |-> d.columns[j] # name])

\* split_date_col(df).  The .str accessor exists only on object columns:
\* on a float64 Date/Period column it raises AttributeError.
split_date_col(d) ==
    IF ColPositions(d, DatePeriod) = {} THEN Raised("KeyError")
    ELSE IF d.dtypes[ColIndex(d, DatePeriod)] # "object" THEN Raised("AttributeError")
    ELSE LET rest == drop(d, DatePeriod)
             date == Column(d, DatePeriod)
         IN  [columns |-> <<PeriodStart, PeriodEnd, WeekNumber>> \o rest.columns,
              dtypes  |-> <<"object", "object", "object">> \o rest.dtypes,
              data    |-> [i \in DOMAIN d.data |-> extract_period(date[i]) \o rest.data[i]]]

\* mutant of insert0: the column is added as the last one
insert_last(d, column, value) ==
    [columns |-> d.columns \o <<column>>,
     dtypes  |-> d.dtypes \o <<"object">>,
     data    |-> [i \in DOMAIN d.data |-> d.data[i] \o <<Str(value)>>]]

\* df.insert(loc=0, column=column, value=value)
insert0(d, column, value) ==
    [columns |-> <<column>> \o d.columns,
     dtypes  |-> <<"object">> \o d.dtypes,
     data    |-> [i \in DOMAIN d.data |-> <<Str(value)>> \o d.data[i]]]

-----------------------------------------------------------------------------
(* Input spreadsheets of the bounded check *)

\* the decimal digits of n, as str(n) writes them
RECURSIVE FmtInt(_)
FmtInt(n) == IF n < 10 THEN <<DigitChars[n + 1]>> ELSE FmtInt(n \div 10) \o <<DigitChars[(n % 10) + 1]>>

\* f"{D}d {H}h {M}m"
FmtDHM(D, H, M) == FmtInt(D) \o <<"d", " ">> \o FmtInt(H) \o <<"h", " ">> \o FmtInt(M) \o <<"m">>

DayVals    == {0, 1, 10}
HourVals   == {0, 5, 23}
MinuteVals == {0, 1, 3, 59, 60, 61}

\* the ways a duration cell is written in an export
DurForms == {"dhm", "dh", "dm", "hm", "d", "h", "m", "packed", "spaced", "hd", "md",
             "lead", "dash", "empty", "digits", "upper", "nan", "num"}

DurCell(form, D, H, M) ==
    CASE form = "dhm"    -> Str(FmtDHM(D, H, M))
      [] form = "dh"     -> Str(FmtInt(D) \o <<"d", " ">> \o FmtInt(H) \o <<"h">>)
      [] form = "dm"     -> Str(FmtInt(D) \o <<"d", " ">> \o FmtInt(M) \o <<"m">>)
      [] form = "hm"     -> Str(FmtInt(H) \o <<"h", " ">> \o FmtInt(M) \o <<"m">>)
      [] form = "d"      -> Str(FmtInt(D) \o <<"d">>)
      [] form = "h"      -> Str(FmtInt(H) \o <<"h">>)
      [] form = "m"      -> Str(FmtInt(M) \o <<"m">>)
      [] form = "packed" -> Str(FmtInt(D) \o <<"d">> \o FmtInt(H) \o <<"h">> \o FmtInt(M) \o <<"m">>)
      [] form = "spaced" -> Str(FmtInt(D) \o <<"d", " ", "\t">> \o FmtInt(H) \o <<"h", " ", " ">> \o FmtInt(M) \o <<"m", " ">>)
      [] form = "hd"     -> Str(FmtInt(H) \o <<"h", " ">> \o FmtInt(D) \o <<"d">>)
      [] form = "md"     -> Str(FmtInt(M) \o <<"m", " ">> \o FmtInt(D) \o <<"d">>)
      [] form = "lead"   -> Str(<<" ">> \o FmtInt(H) \o <<"h">>)
      [] form = "dash"   -> Str(<<"-">>)
      [] form = "empty"  -> Str(<<>>)
      [] form = "digits" -> Str(FmtInt(H))
      [] form = "upper"  -> Str(FmtInt(D) \o <<"D", " ">> \o FmtInt(H) \o <<"H">>)
      [] form = "nan"    -> NaN
      [] form = "num"    -> Num(H)

DurSeeds == [form : DurForms, D : DayVals, H : HourVals, M : MinuteVals]

\* f"{start} - {end} ({week} #{n})"
FmtPeriod(start, end, week, n) ==
    start \o <<" ", "-", " ">> \o end \o <<" ", "(">> \o week \o <<" ", "#">> \o FmtInt(n) \o <<")">>

DateStrs  == {<<"0","1","/","J","a","n","/","2","4">>,
              <<"7","/","F","e","b","/","2","4">>}
WeekWords == {<<"W","e","e","k">>,
              <<"W","E","E","K">>,
              <<"w","e","e","k">>,
              <<"w","E","e","K">>}
WeekNums  == {1, 12, 53}

\* Date/Period texts that are not of the form D/Mon/YY - D/Mon/YY (Week #N)
BadPeriods == {<<"0","1","/","J","a","n","/","2","0","2","4"," ","-"," ","0","7","/","J","a","n","/","2","0","2","4"," ","(","W","e","e","k"," ","#","1",")">>,
               <<"0","1","/","J","a","n","/","2","4"," ","-"," ","0","7","/","J","a","n","/","2","4"," ","(","W","e","e","k"," ","1",")">>,
               <<"0","1","/","J","a","n","/","2","4","-","0","7","/","J","a","n","/","2","4"," ","(","W","e","e","k"," ","#","1",")">>,
               <<"0","1","/","J","a","n","/","2","4"," ","-"," ","0","7","/","J","a","n","/","2","4"," ","(","W","e","k"," ","#","1",")">>,
               <<"0","0","1","/","J","a","n","u","a","r","y","/","2","4"," ","-"," ","0","7","/","J","a","n","/","2","4"," ","(","W","e","e","k"," ","#","1",")">>,
               <<"0","1","/","J","a","n","/","2","4"," ","-"," ","0","7","/","J","a","n","/","2","4"," ","(","W","e","e","k"," ","#",")">>,
               <<"-">>,
               <<>>}

PeriodCells ==
    {Str(FmtPeriod(a, b, w, n)) : a \in DateStrs, b \in DateStrs, w \in WeekWords, n \in WeekNums}
    \cup {Str(t) : t \in BadPeriods} \cup {NaN, Num(7)}

DefaultPeriod == Str(FmtPeriod(<<"0","1","/","J","a","n","/","2","4">>, <<"7","/","F","e","b","/","2","4">>, <<"W","e","e","k">>, 1))
DefaultSeed   == [form |-> "dhm", D |-> 10, H |-> 5, M |-> 3]

\* Date/Period texts with the period inside other text
WrappedPeriods ==
    {Str(<<"x", " ">> \o FmtPeriod(a, b, w, n) \o <<" ", "y">>) :
        a \in DateStrs, b \in DateStrs, w \in WeekWords, n \in WeekNums}

\* str.upper() on one character
UpperChar(c) ==
    IF c \in Range(LowerChars)
    THEN UpperChars[CHOOSE i \in DOMAIN LowerChars : LowerChars[i] = c]
    ELSE c
StrUpper(s) == [i \in DOMAIN s |-> UpperChar(s[i])]

\* how a header text is written in an export
HeaderStyles == {"exact", "lower", "upper", "glyph"}
Styled(name, style) ==
    CASE style = "exact" -> name
      [] style = "lower" -> StrLower(name)
      [] style = "upper" -> StrUpper(name)
      [] style = "glyph" -> <<Glyph>> \o name

Reverse(s) == [i \in DOMAIN s |-> s[Len(s) + 1 - i]]

KeyColumn == <<"K","e","y">>

\* the header row of a spreadsheet: the template columns in the given style,
\* without the dropped one (0: none dropped), in template or reverse order,
\* with an extra column: none, an unrelated one, or a second Lead Time column
\* that differs from the first in case only
Layouts == [style : HeaderStyles, dropped : 0..Len(COLUMNS_TEMPLATE),
            reversed : BOOLEAN, extra : {"none", "key", "twin"}]

Header(l) ==
    LET base  == SelectPos(COLUMNS_TEMPLATE, [j \in DOMAIN COLUMNS_TEMPLATE |-> j # l.dropped], 1)
        named == [j \in DOMAIN base |-> Styled(base[j], l.style)]
        ord   == IF l.reversed THEN Reverse(named) ELSE named
    IN  CASE l.extra = "none" -> ord
          [] l.extra = "key"  -> <<KeyColumn>> \o ord
          [] l.extra = "twin" -> ord \o <<IF l.style = "lower" THEN LeadTime ELSE StrLower(LeadTime)>>

\* position of a header text in the template, ignoring glyph and case (0: none)
TemplatePos(name) ==
    LET n == StrLower(StrReplaceGlyph(name))
    IN  IF \E j \in DOMAIN COLUMNS_TEMPLATE : COLUMNS_TEMPLATE_LOWER[j] = n
        THEN CHOOSE j \in DOMAIN COLUMNS_TEMPLATE : COLUMNS_TEMPLATE_LOWER[j] = n
        ELSE 0

\* a row of a spreadsheet is written from a seed: the Date/Period cell, and
\* the form and numbers of the duration cells (each duration column adds its
\* template position, counted from Lead Time, to the days, so that no two
\* columns hold the same text)
RowSeeds == [form : DurForms, D : DayVals, H : HourVals, M : MinuteVals, date : PeriodCells \cup WrappedPeriods]

SeedCell(name, seed) ==
    LET t == TemplatePos(name)
    IN  IF t = 0 THEN Str(<<"x">>)
        ELSE IF t = 1 THEN seed.date
        ELSE DurCell(seed.form, seed.D + t - 2, seed.H, seed.M)

\* pd.read_excel(filepath): a column with a text cell, or without any row, is
\* an object column; a column of numbers and blanks only is a float64 column
read_excel(header, seeds) ==
    LET data == [i \in DOMAIN seeds |-> [j \in DOMAIN header |-> SeedCell(header[j], seeds[i])]]
    IN  [columns |-> header,
         dtypes  |-> [j \in DOMAIN header |->
                        IF seeds = <<>> \/ \E i \in DOMAIN seeds : data[i][j].k = "str"
                        THEN "object" ELSE "float64"],
         data    |-> data]

-----------------------------------------------------------------------------
(* Bounds and defaults of the input sheets *)

MaxRows == 2

ExactLayout == [style |-> "exact", dropped |-> 0, reversed |-> FALSE, extra |-> "none"]
DefaultRow  == [form |-> DefaultSeed.form, D |-> DefaultSeed.D, H |-> DefaultSeed.H,
                M |-> DefaultSeed.M, date |-> DefaultPeriod]

NoFrame == [columns |-> <<>>, dtypes |-> <<>>, data |-> <<>>]

-----------------------------------------------------------------------------
(* The directory tree *)

XLSX == <<".","x","l","s","x">>
AVG  == <<"A","V","G">>

\* the department directories and the files they may hold
DirNames == {<<"A">>, <<"B">>}
Paths ==
    {[dir |-> <<"A">>, name |-> AVG \o XLSX],
     [dir |-> <<"A">>, name |-> <<"A">> \o XLSX],
     [dir |-> <<"A">>, name |-> <<"B">> \o XLSX],
     [dir |-> <<"B">>, name |-> AVG \o XLSX],
     [dir |-> <<"B">>, name |-> <<"B">> \o XLSX]}

\* position of the last "." of a file name that starts a suffix (0: no suffix)
LastDot(name) ==
    LET dots == {i \in 2..(Len(name) - 1) : name[i] = "."}
    IN  IF dots = {} THEN 0 ELSE CHOOSE i \in dots : \A j \in dots : j <= i

\* PurePath.suffix and PurePath.stem
suffix(name) == IF LastDot(name) = 0 THEN <<>> ELSE SubSeq(name, LastDot(name), Len(name))
stem(name)   == IF LastDot(name) = 0 THEN name ELSE SubSeq(name, 1, LastDot(name) - 1)

EndsWith(s, t)   == Len(s) >= Len(t) /\ SubSeq(s, Len(s) - Len(t) + 1, Len(s)) = t
StartsWith(s, t) == Len(s) >= Len(t) /\ SubSeq(s, 1, Len(t)) = t

\* the glob patterns "AVG*.xlsx" and "*.xlsx" on a file name
MatchesAvg(name)  == Len(name) >= Len(AVG) + Len(XLSX) /\ StartsWith(name, AVG) /\ EndsWith(name, XLSX)
MatchesXlsx(name) == EndsWith(name, XLSX)

\* what a path holds: nothing, a file read_excel cannot load, or a
\* spreadsheet with a header row and n data rows
NoFile  == [kind |-> "none",    l |-> ExactLayout, n |-> 0]
Corrupt == [kind |-> "corrupt", l |-> ExactLayout, n |-> 0]
Sheet(l, n) == [kind |-> "sheet", l |-> l, n |-> n]

\* the header rows of the spreadsheets of the directory tree, besides the
\* exact template: lower case and reversed without Blocked Time and with an
\* unrelated column, upper case without Date/Period, and two Lead Time columns
OtherLayouts ==
    {[style |-> "lower", dropped |-> 4, reversed |-> TRUE,  extra |-> "key"],
     [style |-> "upper", dropped |-> 1, reversed |-> FALSE, extra |-> "none"],
     [style |-> "exact", dropped |-> 0, reversed |-> FALSE, extra |-> "twin"]}

MaxFiles == 2

Contents ==
    {Corrupt} \cup {Sheet(ExactLayout, n) : n \in 0..MaxRows}
              \cup {Sheet(l, MaxRows) : l \in OtherLayouts}

\* row i of a spreadsheet of the tree: i days, and every second row a dash
SheetRow(i) == [DefaultRow EXCEPT !.D = i, !.form = IF i % 2 = 1 THEN "dhm" ELSE "dash"]

\* pd.read_excel on the content of a path
load(content) == read_excel(Header(content.l), [i \in 1..content.n |-> SheetRow(i)])

Exists(tree, p) == tree[p] # NoFile

-----------------------------------------------------------------------------
(* main *)

Init ==
    /\ pc = "start"
    /\ \E S \in {T \in SUBSET Paths : Cardinality(T) \in 1..MaxFiles} :
          \E c \in [S -> Contents] :
             fs = [p \in Paths |-> IF p \in S THEN c[p] ELSE NoFile]
    /\ avg_files = <<>>
    /\ avg_idx = 0
    /\ excel_filepaths = <<>>
    /\ idx = 0
    /\ transformed_dfs = <<>>
    /\ log_exists = FALSE
    /\ log_lines = <<>>
    /\ csv = <<>>
    /\ failed_at = <<>>
    /\ df_in = NoFrame /\ df = NoFrame /\ stage = "idle"

\* the orders in which rglob can yield the files of a set
Orders(S) == {f \in [1..Cardinality(S) -> S] : \A i, j \in DOMAIN f : i # j => f[i] # f[j]}

\* main up to the loop of rename_excel_files: logging.basicConfig(filename=...)
\* installs a FileHandler, which opens (creates) the log file at once;
\* rglob then lists the AVG*.xlsx files of the tree, in any order
Start ==
    /\ pc = "start"
    /\ log_exists' = TRUE
    /\ avg_files' \in Orders({p \in Paths : Exists(fs, p) /\ MatchesAvg(p.name)})
    /\ pc' = "rename"
    /\ UNCHANGED <<fs, avg_idx, excel_filepaths, idx, transformed_dfs, log_lines, csv, failed_at, df_in, df, stage>>

\* avg_file.parent / f"{avg_file.parent.name}.xlsx"
new_name(avg_file) == [dir |-> avg_file.dir, name |-> avg_file.dir \o XLSX]

\* one iteration of the for loop of rename_excel_files.  Path.rename onto an
\* existing file replaces it on POSIX and raises FileExistsError on Windows.
RenameStep ==
    /\ pc = "rename"
    /\ avg_idx < Len(avg_files)
    /\ LET avg_file == avg_files[avg_idx + 1]
           target   == new_name(avg_file)
       IN  \/ /\ fs' = IF target = avg_file THEN fs
                       ELSE [fs EXCEPT ![target] = fs[avg_file], ![avg_file] = NoFile]
              /\ avg_idx' = avg_idx + 1
              /\ UNCHANGED <<pc, failed_at>>
           \/ /\ target # avg_file /\ Exists(fs, target)
              /\ pc' = "aborted"
              /\ failed_at' = <<avg_file>>
              /\ UNCHANGED <<fs, avg_idx>>
    /\ UNCHANGED <<avg_files, excel_filepaths, idx, transformed_dfs, log_exists, log_lines, csv, df_in, df, stage>>

\* mutant of Matching: the stem is not compared with the directory name
Matching_any(tree) == {p \in Paths : Exists(tree, p) /\ MatchesXlsx(p.name)}

\* the paths get_excel_filepaths keeps
Matching(tree) == {p \in Paths : Exists(tree, p) /\ MatchesXlsx(p.name) /\ stem(p.name) = p.dir}

\* rename_excel_files returns once rglob is exhausted; get_excel_filepaths
Discover ==
    /\ pc = "rename"
    /\ avg_idx = Len(avg_files)
    /\ excel_filepaths' \in Orders(Matching(fs))
    /\ pc' = "loop"
    /\ UNCHANGED <<fs, avg_files, avg_idx, idx, transformed_dfs, log_exists, log_lines, csv, failed_at, df_in, df, stage>>

\* the file the for loop of main is at
filepath == excel_filepaths[idx + 1]

\* an uncaught exception in the loop body ends the run
Abort ==
    /\ pc' = "aborted"
    /\ stage' = "raised"
    /\ failed_at' = <<filepath>>

\* df = pd.read_excel(filepath)
ReadStep ==
    /\ pc = "loop" /\ stage = "idle"
    /\ idx < Len(excel_filepaths)
    /\ IF fs[filepath].kind # "sheet"
       THEN Abort /\ UNCHANGED <<df_in, df>>
       ELSE /\ df' = load(fs[filepath])
            /\ df_in' = df'
            /\ stage' = "read"
            /\ UNCHANGED <<pc, failed_at>>
    /\ UNCHANGED <<fs, avg_files, avg_idx, excel_filepaths, idx, transformed_dfs, log_exists, log_lines, csv>>

\* df = preprocess_columns(df, filepath)
PreprocessStep ==
    /\ pc = "loop" /\ stage = "read"
    /\ LET r == preprocess_columns(df, filepath.name)
       IN  /\ df' = r.df
           /\ log_lines' = log_lines \o r.logs
    /\ IF IsRaised(df') THEN Abort ELSE stage' = "preprocessed" /\ UNCHANGED <<pc, failed_at>>
    /\ UNCHANGED <<fs, avg_files, avg_idx, excel_filepaths, idx, transformed_dfs, log_exists, csv, df_in>>

\* df = convert_time_cols(df, time_columns)
ConvertStep ==
    /\ pc = "loop" /\ stage = "preprocessed"
    /\ df' = convert_time_cols(df, time_columns)
    /\ stage' = "converted"
    /\ UNCHANGED <<pc, fs, avg_files, avg_idx, excel_filepaths, idx, transformed_dfs, log_exists, log_lines,
                   csv, failed_at, df_in>>

\* df = split_date_col(df)
SplitStep ==
    /\ pc = "loop" /\ stage = "converted"
    /\ df' = split_date_col(df)
    /\ IF IsRaised(df') THEN Abort ELSE stage' = "split" /\ UNCHANGED <<pc, failed_at>>
    /\ UNCHANGED <<fs, avg_files, avg_idx, excel_filepaths, idx, transformed_dfs, log_exists, log_lines, csv, df_in>>

\* df.insert(loc=0, column="Department Name", value=filepath.stem);
\* transformed_dfs.append(df)
CollectStep ==
    /\ pc = "loop" /\ stage = "split"
    /\ df' = insert0(df, DepartmentName, stem(filepath.name))
    /\ transformed_dfs' = Append(transformed_dfs, df')
    /\ idx' = idx + 1
    /\ stage' = "idle"
    /\ UNCHANGED <<pc, fs, avg_files, avg_idx, excel_filepaths, log_exists, log_lines, csv, failed_at, df_in>>

\* mutant of concat_rows: the frame collected last comes first
RECURSIVE concat_rows_last_first(_)
concat_rows_last_first(dfs) ==
    IF dfs = <<>> THEN <<>> ELSE concat_rows_last_first(Tail(dfs)) \o Head(dfs).data

\* pd.concat(dfs, ignore_index=True) of frames with the same columns
RECURSIVE concat_rows(_)
concat_rows(dfs) == IF dfs = <<>> THEN <<>> ELSE Head(dfs).data \o concat_rows(Tail(dfs))

concat(dfs) ==
    [columns |-> dfs[1].columns,
     dtypes  |-> [j \in DOMAIN dfs[1].columns |->
                    IF \A i \in DOMAIN dfs : dfs[i].dtypes[j] = dfs[1].dtypes[j]
                    THEN dfs[1].dtypes[j] ELSE "object"],
     data    |-> concat_rows(dfs)]

\* mutant of Finish: the output file is written inside the loop, after any file
Finish_in_loop ==
    /\ pc = "loop" /\ stage = "idle"
    /\ IF transformed_dfs = <<>>
       THEN pc' = "aborted" /\ UNCHANGED csv
       ELSE pc' = "done" /\ csv' = <<concat(transformed_dfs)>>
    /\ UNCHANGED <<fs, avg_files, avg_idx, excel_filepaths, idx, transformed_dfs, log_exists, log_lines,
                   failed_at, df_in, df, stage>>

\* after the loop: pd.concat raises ValueError on an empty list, otherwise
\* final_df.to_csv writes the output file
Finish ==
    /\ pc = "loop" /\ stage = "idle"
    /\ idx = Len(excel_filepaths)
    /\ IF transformed_dfs = <<>>
       THEN pc' = "aborted" /\ UNCHANGED csv
       ELSE pc' = "done" /\ csv' = <<concat(transformed_dfs)>>
    /\ UNCHANGED <<fs, avg_files, avg_idx, excel_filepaths, idx, transformed_dfs, log_exists, log_lines,
                   failed_at, df_in, df, stage>>

Next ==
    \/ Start \/ RenameStep \/ Discover
    \/ ReadStep \/ PreprocessStep \/ ConvertStep \/ SplitStep \/ CollectStep
    \/ Finish

Spec == Init /\ [][Next]_vars

-----------------------------------------------------------------------------
(* The loop body on one spreadsheet, drawn from a wider set of sheets:     *)
(* main has discovered the file A/A.xlsx and has just read it              *)

\* the forms of a duration cell, each with one choice of numbers
FormRows == {[DefaultRow EXCEPT !.form = f] : f \in DurForms}

TableInputs ==
    {read_excel(Header(l), [i \in 1..n |-> DefaultRow]) : l \in Layouts, n \in 0..MaxRows}
    \cup {read_excel(Header(ExactLayout), <<s>>) : s \in {r \in RowSeeds : r.date = DefaultPeriod}}
    \cup {read_excel(Header(ExactLayout), <<[DefaultRow EXCEPT !.date = c]>>) : c \in PeriodCells \cup WrappedPeriods}
    \cup {read_excel(Header(ExactLayout), <<s1, s2>>) : s1 \in FormRows, s2 \in FormRows}

TablePath == [dir |-> <<"A">>, name |-> <<"A">> \o XLSX]

InitTable ==
    /\ pc = "loop"
    /\ fs = [p \in Paths |-> IF p = TablePath THEN Sheet(ExactLayout, 0) ELSE NoFile]
    /\ avg_files = <<>>
    /\ avg_idx = 0
    /\ excel_filepaths = <<TablePath>>
    /\ idx = 0
    /\ transformed_dfs = <<>>
    /\ log_exists = TRUE
    /\ log_lines = <<>>
    /\ csv = <<>>
    /\ failed_at = <<>>
    /\ df_in \in TableInputs
    /\ df = df_in
    /\ stage = "read"

NextTable == PreprocessStep \/ ConvertStep \/ SplitStep

SpecTable == InitTable /\ [][NextTable]_vars

-----------------------------------------------------------------------------
(* Properties *)

Cell(d, i, name) == d.data[i][ColIndex(d, name)]

TimeColumnNames == {LeadTime, CycleTime, BlockedTime, TimeToMarket, AnalysisTime}

\* the days a duration cell of the input sheets can hold
SeedDays == {d + t : d \in DayVals, t \in 0..4}

\* the least number of whole hours that covers M minutes
WholeHours(M) == CHOOSE k \in 0..M : k * 60 >= M /\ (k = 0 \/ (k - 1) * 60 < M)

\* C1: convert_time_cols replaces every cell "{D}d {H}h {M}m" of a duration
\* column by D*24 + H + ceil(M/60) hours, the minutes rounded up to a whole hour.
C1_FullDurationToHours ==
    [][(stage = "preprocessed" /\ stage' = "converted") =>
          \A col \in TimeColumnNames, i \in DOMAIN df.data :
             \A D \in SeedDays, H \in HourVals, M \in MinuteVals :
                Cell(df, i, col) = Str(FmtDHM(D, H, M))
                   => Cell(df', i, col) = Num(D * 24 + H + WholeHours(M))]_vars

\* C1 witness: a sheet with "10d 5h 3m" and "3m" in Lead Time has been
\* converted to 246 and 1.
C1_Witness ==
    /\ stage = "converted"
    /\ df_in.columns = COLUMNS_TEMPLATE
    /\ NRows(df_in) = 2
    /\ Cell(df_in, 1, LeadTime) = Str(FmtDHM(10, 5, 3)) /\ Cell(df, 1, LeadTime) = Num(246)
    /\ Cell(df_in, 2, LeadTime) = Str(<<"3", "m">>)     /\ Cell(df, 2, LeadTime) = Num(1)

\* a template column is absent from a header row when no header text equals
\* it once the glyph is removed and the case ignored
AbsentFrom(header, j) == ~\E c \in DOMAIN header : TemplatePos(header[c]) = j

\* C2: whatever the columns of the input table, preprocess_columns returns a
\* table whose columns are exactly COLUMNS_TEMPLATE, in template order, and a
\* template column absent from the source holds a missing value in every row.
C2_TemplateColumnsAlways ==
    [][stage = "read" =>
          /\ ~IsRaised(df')
          /\ df'.columns = COLUMNS_TEMPLATE
          /\ \A j \in DOMAIN COLUMNS_TEMPLATE :
                AbsentFrom(df.columns, j) => \A i \in DOMAIN df'.data : IsNaN(df'.data[i][j])]_vars

\* C8: split_date_col turns every Date/Period cell of the form
\* D/Mon/YY - D/Mon/YY (Week #N) into its three parts and every other cell
\* into three missing values; the three new columns lead the table and
\* Date/Period is gone.
C8_PeriodSplit ==
    [][stage = "converted" =>
          /\ ~IsRaised(df')
          /\ df'.columns = <<PeriodStart, PeriodEnd, WeekNumber>> \o drop(df, DatePeriod).columns
          /\ DatePeriod \notin Range(df'.columns)
          /\ \A i \in DOMAIN df.data :
                LET c   == Cell(df, i, DatePeriod)
                    out == SubSeq(df'.data[i], 1, 3)
                IN  /\ \A a \in DateStrs, b \in DateStrs, w \in WeekWords, n \in WeekNums :
                          c = Str(FmtPeriod(a, b, w, n)) => out = <<Str(a), Str(b), Str(FmtInt(n))>>
                    /\ (c.k # "str" \/ c.s \in BadPeriods) => out = <<NaN, NaN, NaN>>]_vars

\* C9: preprocess_columns applied to a table that has exactly the template
\* columns returns the same table and logs nothing: a reconciled table is a
\* fixed point, and a sheet read with the exact template header is unchanged.
C9_ReconcileIdempotent ==
    (pc = "loop" /\ stage = "preprocessed") =>
        /\ preprocess_columns(df, filepath.name) = [df |-> df, logs |-> <<>>]
        /\ df_in.columns = COLUMNS_TEMPLATE => (df = df_in /\ log_lines = <<>>)

\* C9 witness: a sheet with data rows under the exact template header has
\* been reconciled.
C9_Witness ==
    /\ stage = "preprocessed"
    /\ df_in.columns = COLUMNS_TEMPLATE
    /\ NRows(df_in) = 2
    /\ df = df_in

ValueOr0(c) == IF IsNaN(c) THEN 0 ELSE ToNumeric(c.s)

\* C10: a converted duration cell is missing exactly when none of the days,
\* hours and minutes groups was extracted from it; otherwise every group
\* that was not extracted counts as 0.
C10_MissingIffNothingExtracted ==
    [][(stage = "preprocessed" /\ stage' = "converted") =>
          \A col \in TimeColumnNames, i \in DOMAIN df.data :
             df.dtypes[ColIndex(df, col)] = "object" =>
                LET e    == extract_dhm(Cell(df, i, col))
                    none == IsNaN(e.Days) /\ IsNaN(e.Hours) /\ IsNaN(e.Minutes)
                    out  == Cell(df', i, col)
                IN  /\ IsNaN(out) <=> none
                    /\ ~none => out = Num(ValueOr0(e.Days) * 24 + ValueOr0(e.Hours)
                                          + WholeHours(ValueOr0(e.Minutes)))]_vars

\* C10 witness: "5h" has become 5 and "-" has become a missing value.
C10_Witness ==
    /\ stage = "converted"
    /\ df_in.columns = COLUMNS_TEMPLATE
    /\ NRows(df_in) = 2
    /\ Cell(df_in, 1, LeadTime) = Str(<<"5", "h">>) /\ Cell(df, 1, LeadTime) = Num(5)
    /\ Cell(df_in, 2, LeadTime) = Str(<<"-">>)      /\ IsNaN(Cell(df, 2, LeadTime))

\* rename_excel_files and get_excel_filepaths have both returned (a rename
\* that raised leaves avg_idx short of the listing)
Discovered == pc \in {"loop", "done"} \/ (pc = "aborted" /\ avg_idx = Len(avg_files))

DiscoveredIn(d) == {i \in DOMAIN excel_filepaths : excel_filepaths[i].dir = d}

\* C3: after rename_excel_files and get_excel_filepaths, a directory that
\* held an AVG file holds the file named after the directory in its place,
\* and discovery returns that file and nothing else of the directory; a
\* directory without a spreadsheet whose stem is the directory name
\* contributes no path.
C3_RenamedThenDiscovered ==
    Discovered =>
        /\ \A k \in DOMAIN avg_files :
              LET d   == avg_files[k].dir
                  own == [dir |-> d, name |-> d \o XLSX]
              IN  /\ Exists(fs, own)
                  /\ ~Exists(fs, avg_files[k])
                  /\ Cardinality(DiscoveredIn(d)) = 1
                  /\ \A i \in DiscoveredIn(d) : excel_filepaths[i] = own
        /\ \A d \in DirNames :
              (~\E p \in Paths : /\ p.dir = d /\ Exists(fs, p)
                                 /\ EndsWith(p.name, XLSX) /\ stem(p.name) = d)
                 => DiscoveredIn(d) = {}

\* C3 witness: directory B held B/AVG.xlsx, now B/B.xlsx and discovered,
\* while directory A holds only A/B.xlsx and contributes nothing.
C3_Witness ==
    /\ pc = "loop"
    /\ avg_files = <<[dir |-> <<"B">>, name |-> AVG \o XLSX]>>
    /\ excel_filepaths = <<[dir |-> <<"B">>, name |-> <<"B">> \o XLSX]>>
    /\ Exists(fs, [dir |-> <<"A">>, name |-> <<"B">> \o XLSX])

OutputHeader == <<DepartmentName, PeriodStart, PeriodEnd, WeekNumber,
                  LeadTime, CycleTime, BlockedTime, TimeToMarket, AnalysisTime>>

RECURSIVE SourceRows(_)
SourceRows(paths) == IF paths = <<>> THEN 0 ELSE fs[Head(paths)].n + SourceRows(Tail(paths))

\* the rows of the output table tagged with a department
RowsOf(out, department) == {i \in DOMAIN out.data : out.data[i][1] = Str(department)}

\* C4: the output table has as many rows as the source sheets together, the
\* rows tagged with a file's stem are as many as that file's rows, and the
\* columns are Department Name, Period Start, Period End, Week Number, Lead
\* Time, Cycle Time, Blocked Time, Time to Market, Analysis Time in this order.
C4_OutputTable ==
    pc = "done" =>
        /\ Len(csv) = 1
        /\ csv[1].columns = OutputHeader
        /\ NRows(csv[1]) = SourceRows(excel_filepaths)
        /\ \A k \in DOMAIN excel_filepaths :
              Cardinality(RowsOf(csv[1], stem(excel_filepaths[k].name))) = fs[excel_filepaths[k]].n
        /\ \A i \in DOMAIN csv[1].data :
              \E k \in DOMAIN excel_filepaths : csv[1].data[i][1] = Str(stem(excel_filepaths[k].name))

\* C4 witness: a run over two department files with different numbers of
\* rows has written its table.
C4_Witness ==
    /\ pc = "done"
    /\ Len(excel_filepaths) = 2
    /\ fs[excel_filepaths[1]].n = 1
    /\ fs[excel_filepaths[2]].n = 2
    /\ NRows(csv[1]) = 3

\* the discovered files preprocess_columns has been applied to
Preprocessed ==
    {k \in DOMAIN excel_filepaths :
        /\ fs[excel_filepaths[k]].kind = "sheet"
        /\ \/ k <= idx
           \/ k = idx + 1 /\ stage \in {"preprocessed", "converted", "split", "raised"}}

\* C5: for every processed file and every template column absent from it,
\* the log holds exactly one line naming the column and the file, the
\* processing of the file is not aborted, and every output row of the file
\* has a missing value in the column.
C5_MissingColumnDiagnostic ==
    \A k \in Preprocessed :
        LET p == excel_filepaths[k] IN
        \A j \in DOMAIN COLUMNS_TEMPLATE :
           AbsentFrom(Header(fs[p].l), j) =>
              /\ Cardinality({i \in DOMAIN log_lines :
                                 log_lines[i] = LogLine(COLUMNS_TEMPLATE[j], p.name)}) = 1
              /\ failed_at # <<p>>
              /\ (pc = "done" /\ COLUMNS_TEMPLATE[j] \in Range(csv[1].columns)) =>
                    \A i \in RowsOf(csv[1], stem(p.name)) : IsNaN(Cell(csv[1], i, COLUMNS_TEMPLATE[j]))

\* C6: a successful run leaves a log file exactly when a missing-column
\* diagnostic was emitted.
C6_LogOnlyWithDiagnostics ==
    pc = "done" => (log_exists <=> log_lines # <<>>)

\* C7: no output file exists after a failure, and the output file is written
\* only once every discovered file has been read, transformed and collected.
C7_NoPartialOutput ==
    /\ pc = "aborted" => csv = <<>>
    /\ failed_at # <<>> => pc = "aborted"
    /\ csv # <<>> =>
          /\ pc = "done" /\ stage = "idle"
          /\ idx = Len(excel_filepaths)
          /\ Len(transformed_dfs) = Len(excel_filepaths)

\* C7 witness: the second of two discovered files failed after the first was
\* collected, and there is no output file.
C7_Witness ==
    /\ pc = "aborted"
    /\ Len(excel_filepaths) = 2
    /\ failed_at = <<excel_filepaths[2]>>
    /\ Len(transformed_dfs) = 1
    /\ csv = <<>>

\* the number of output rows that come before the rows of the k-th
\* discovered file
Offset(k) == SourceRows(SubSeq(excel_filepaths, 1, k - 1))

\* the Lead Time of row r of a spreadsheet of the tree, in hours: r days
\* 5 hours 3 minutes in the odd rows, a dash in the even rows
SourceLeadTime(r) == IF r % 2 = 1 THEN Num(r * 24 + 5 + WholeHours(3)) ELSE NaN

\* the output table holds the rows of the files in discovery order, and the
\* rows of one file in their source order
BlocksInOrder ==
    /\ Len(csv) = 1
    /\ \A k \in DOMAIN excel_filepaths :
          \A r \in 1..fs[excel_filepaths[k]].n :
             /\ Offset(k) + r \in DOMAIN csv[1].data
             /\ Cell(csv[1], Offset(k) + r, DepartmentName) = Str(stem(excel_filepaths[k].name))
             /\ Cell(csv[1], Offset(k) + r, LeadTime) = SourceLeadTime(r)
             /\ csv[1].data[Offset(k) + r] = transformed_dfs[k].data[r]

\* the loop body takes its steps in the order read, reconcile, convert,
\* split, tag and collect, and a table is collected only at the last of them
StepsInOrder ==
    /\ stage' # stage =>
          \/ stage' = "raised"
          \/ <<stage, stage'>> \in {<<"idle", "read">>, <<"read", "preprocessed">>,
                                    <<"preprocessed", "converted">>, <<"converted", "split">>,
                                    <<"split", "idle">>}
    /\ transformed_dfs' # transformed_dfs =>
          /\ stage = "split" /\ stage' = "idle"
          /\ df.columns = Tail(OutputHeader)
          /\ df'.columns = OutputHeader
          /\ \A i \in DOMAIN df'.data : df'.data[i][1] = Str(stem(filepath.name))
          /\ transformed_dfs' = Append(transformed_dfs, df')
          /\ idx' = idx + 1

\* C11: the final output table lists the department blocks in file discovery
\* order and the rows of a block in the order of the source spreadsheet, and
\* each file goes through reconciliation, duration conversion, date
\* splitting and department tagging, in this order, before it is collected.
C11_DiscoveryAndSourceOrder ==
    /\ [](pc = "done" => BlocksInOrder)
    /\ [][StepsInOrder]_vars

\* C11 witness: two files of two rows each were discovered with B before A,
\* and the written table holds the rows of B, then those of A.
C11_Witness ==
    /\ pc = "done"
    /\ Len(excel_filepaths) = 2
    /\ excel_filepaths[1].dir = <<"B">> /\ excel_filepaths[2].dir = <<"A">>
    /\ fs[excel_filepaths[1]].n = 2 /\ fs[excel_filepaths[2]].n = 2
    /\ Cell(csv[1], 1, DepartmentName) = Str(<<"B">>)
    /\ Cell(csv[1], 1, LeadTime) = Num(30) /\ IsNaN(Cell(csv[1], 2, LeadTime))
    /\ Cell(csv[1], 3, DepartmentName) = Str(<<"A">>)
    /\ Cell(csv[1], 3, LeadTime) = Num(30) /\ IsNaN(Cell(csv[1], 4, LeadTime))

====
